---- MODULE Spec2Model ----
(***************************************************************************)
(* The entity application of clusto-apiserver (clustoapi/apps/entity.py)   *)
(* with the helpers of clustoapi/util.py it uses, as a state machine over  *)
(* the clusto store: one action per request handler, each action the whole *)
(* handler from the request to the response.                               *)
(***************************************************************************)
EXTENDS Integers, Sequences, FiniteSets, TLC

\* ------------------------------------------------------------------ bounds

\* Longest list of repeated `name` parameters of one Create or Delete request.
MaxNames == 2

\* Longest list of repeated `device` parameters of one Insert request.
MaxDevices == 1

\* ------------------------------------------------------------- the inputs

\* Entity names requests carry, in the order the store lists them.
NameOrder == <<"p1", "s1", "s2">>

Names == {NameOrder[i] : i \in 1..Len(NameOrder)}

\* clusto.driverlist: the registry of driver names (read only).
driverlist == {"pool", "basicserver"}

\* Driver names a request path may carry: the registered ones and one that
\* is not registered.
DriverInputs == driverlist \cup {"nondriver"}

\* The value of a default argument that was not given (driver=None).
None == "None"

\* The store has no entity of that name.
Absent == "absent"

\* Lists of at most n names, repetitions allowed.
NameLists(n) == UNION {[1..k -> Names] : k \in 0..n}

\* ------------------------------------------------------------------ state

VARIABLES
    entities,   \* the store: name -> driver name of the entity, or Absent
    contents,   \* the store's containment edges <<container, member>>
    pre,        \* the store as it was when the last request arrived
    request,    \* the last request
    response,   \* the response to it
    value,      \* the object util.unclusto was last given
    serialized  \* what util.unclusto returned for it

vars == <<entities, contents, pre, request, response, value, serialized>>

\* ------------------------------------------------------- the clusto store

\* clusto.get_by_name(name) raises LookupError when no entity has the name.
LookupError(es, name) == es[name] = Absent

\* The object clusto.get_by_name(name) returns.
get_by_name(es, name) == [driver |-> es[name], name |-> name]

\* `obj = None`: no object.
NoObject == [driver |-> None, name |-> None]

\* obj.entity.delete(): the entity goes, and every edge from it or to it.
entity_delete(store, name) ==
    [entities |-> [store.entities EXCEPT ![name] = Absent],
     contents |-> {e \in store.contents : e[1] # name /\ e[2] # name}]

\* ------------------------------------------------------------------- util

\* util.unclusto of a driver object: its reference '/<driver>/<name>'.
unclusto(obj) == "/" \o obj.driver \o "/" \o obj.name

\* ','.join(strings)
RECURSIVE join(_)
join(strings) ==
    IF strings = <<>> THEN ""
    ELSE IF Len(strings) = 1 THEN strings[1]
    ELSE strings[1] \o "," \o join(Tail(strings))

\* util.get(name, driver): <<obj, status, msg>>, or the exception it lets
\* through. clusto.driverlist[driver] is evaluated before the lookup and
\* raises KeyError for a driver that is not registered.
get(es, name, driver) ==
    IF driver # None /\ driver \notin driverlist
    THEN [fault |-> "KeyError", obj |-> NoObject, status |-> 500, msg |-> ""]
    ELSE IF LookupError(es, name)
    THEN [fault |-> "none", obj |-> NoObject, status |-> 404,
          msg |-> "Object \"" \o name \o "\" not found"]
    ELSE IF driver # None /\ es[name] # driver
    THEN [fault |-> "none", obj |-> NoObject, status |-> 409,
          msg |-> "The driver for object \"" \o name \o "\" is not \""
                      \o driver \o "\""]
    ELSE [fault |-> "none", obj |-> get_by_name(es, name), status |-> 200,
          msg |-> ""]

\* ----------------------------------------------------------- the serializer

\* A Python value that is no clusto object: its type and its text.
Py(type, repr) == [type |-> type, repr |-> repr]

\* No value yet.
Unset == Py("unset", "")

\* str(obj): the text of the value, as a str.
str(obj) == Py("str", obj.repr)

\* The first test of unclusto, had it been written with isinstance: a bool
\* is an instance of int.
is_primitive_isinstance(obj) ==
    obj.type \in {"str", "unicode", "int", "bool"} \/ obj.type = "NoneType"

\* `type(obj) in (str, unicode, int) or obj is None`
is_primitive(obj) ==
    obj.type \in {"str", "unicode", "int"} \/ obj.type = "NoneType"

\* util.unclusto(obj), for any object.
RECURSIVE unclusto_value(_)
unclusto_value(obj) ==
    IF is_primitive(obj) THEN obj
    ELSE IF obj.type = "Attribute"
    THEN [type |-> "dict",
          key |-> obj.key,
          value |-> unclusto_value(obj.value),
          subkey |-> obj.subkey,
          number |-> obj.number,
          datatype |-> obj.datatype]
    ELSE IF obj.type = "Driver"
    THEN Py("str", unclusto(obj))
    ELSE str(obj)

\* The values without fields of their own: strings, integers, None,
\* booleans, and two of types unclusto does not name.
Scalars ==
    {Py("str", "web"), Py("str", ""), Py("unicode", "rack"),
     Py("int", "0"), Py("int", "7"), Py("NoneType", "None"),
     Py("bool", "True"), Py("bool", "False"),
     Py("float", "1.5"), Py("datetime", "2013-01-01 00:00:00")}

\* The driver objects.
DriverObjects ==
    {[type |-> "Driver", driver |-> d, name |-> n] : d \in driverlist, n \in Names}

\* The values an attribute holds: a string, an integer, a date or a
\* relation to an entity.
AttributeValues ==
    {v \in Scalars : v.type \in {"str", "unicode", "int", "datetime"}}
        \cup DriverObjects

\* The datatype clusto records with an attribute value.
datatype_of(v) ==
    CASE v.type = "Driver" -> "relation"
      [] v.type = "int" -> "int"
      [] v.type = "datetime" -> "datetime"
      [] OTHER -> "string"

\* The attributes: clusto.Attribute(key, value, subkey, number).
Attributes ==
    {[type |-> "Attribute", key |-> k, value |-> v, subkey |-> sk,
      number |-> nr, datatype |-> datatype_of(v)] :
        k \in {"ip", "owner", "_contains"}, v \in AttributeValues,
        sk \in {"None", "eth0"}, nr \in {"None", "0"}}

\* The objects unclusto is given.
Values == Scalars \cup DriverObjects \cup Attributes

\* -------------------------------------------------------------- responses

NoHeader == ""

\* What util.show(obj) is when the response carries no entity.
NoEntity == [name |-> None, driver |-> None, contents |-> <<>>, parents |-> <<>>]

\* bottle.HTTPResponse(body, status, **headers). `body` is a JSON array,
\* `msg` a JSON string, `entity` a JSON object; `found` is the list the
\* Warnings header joins.
Response(status, body, msg, entity, found) ==
    [status |-> status, body |-> body, msg |-> msg, entity |-> entity,
     found |-> found,
     Warnings |-> IF found = <<>> THEN NoHeader
                  ELSE "Entity(s) " \o join(found) \o " already exist(s)",
     fault |-> "none"]

\* An exception no handler catches: the request ends in bottle's 500.
Fault(exception) ==
    [status |-> 500, body |-> <<>>, msg |-> "", entity |-> NoEntity,
     found |-> <<>>, Warnings |-> NoHeader, fault |-> exception]

Outcome(store, resp) == [store |-> store, response |-> resp]

\* The registry test with the test left out.
in_driverlist_any(driver) == TRUE

\* `driver in clusto.driverlist`
in_driverlist(driver) == driver \in driverlist

\* ----------------------------------------------------------- get_entities

\* clusto.get_entities(clusto_drivers=[cls]), or every entity without the
\* filter, in the store's order.
clusto_get_entities(es, driver) ==
    LET match(n) == es[n] # Absent /\ (driver = None \/ es[n] = driver)
        hits == SelectSeq(NameOrder, match)
    IN  [i \in 1..Len(hits) |-> get_by_name(es, hits[i])]

get_entities(store, driver) ==
    IF driver # None /\ ~in_driverlist(driver)
    THEN Outcome(store,
            Response(409, <<>>,
                "The requested driver \"" \o driver \o "\" does not exist",
                NoEntity, <<>>))
    ELSE LET ents == clusto_get_entities(store.entities, driver)
             result == [i \in 1..Len(ents) |-> unclusto(ents[i])]
         IN  Outcome(store, Response(200, result, "", NoEntity, <<>>))

\* ----------------------------------------------------------------- create

\* clusto.get_or_create(name, cls): the entity of that name when it is a
\* cls, a new cls entity when the name is free, TypeError when the name is
\* taken by an entity of another driver.
get_or_create(es, name, cls) ==
    IF LookupError(es, name)
    THEN [entities |-> [es EXCEPT ![name] = cls],
          obj |-> [driver |-> cls, name |-> name], fault |-> "none"]
    ELSE IF es[name] # cls
    THEN [entities |-> es, obj |-> get_by_name(es, name), fault |-> "TypeError"]
    ELSE [entities |-> es, obj |-> get_by_name(es, name), fault |-> "none"]

\* A list without its repetitions, first occurrences kept.
RECURSIVE dedup(_)
dedup(s) ==
    IF s = <<>> THEN <<>>
    ELSE <<Head(s)>> \o dedup(SelectSeq(Tail(s), LAMBDA x : x # Head(s)))

\* The first loop of create, had it skipped the names it has seen.
create_found_dedup(es, names) ==
    LET hits == SelectSeq(dedup(names), LAMBDA n : ~LookupError(es, n))
    IN  [i \in 1..Len(hits) |-> unclusto(get_by_name(es, hits[i]))]

\* The first loop of create: the references of the names that resolve,
\* one per occurrence in the request, in request order.
create_found(es, names) ==
    LET hits == SelectSeq(names, LAMBDA n : ~LookupError(es, n))
    IN  [i \in 1..Len(hits) |-> unclusto(get_by_name(es, hits[i]))]

\* The second loop of create: get_or_create name by name; an exception
\* ends the loop and keeps what the earlier iterations created.
RECURSIVE create_result(_, _, _, _)
create_result(es, cls, names, result) ==
    IF names = <<>>
    THEN [entities |-> es, result |-> result, fault |-> "none"]
    ELSE LET r == get_or_create(es, Head(names), cls)
         IN  IF r.fault # "none"
             THEN [entities |-> r.entities, result |-> result, fault |-> r.fault]
             ELSE create_result(r.entities, cls, Tail(names),
                                Append(result, unclusto(r.obj)))

create(store, driver, names) ==
    IF ~in_driverlist(driver)
    THEN Outcome(store,
            Response(409, <<>>,
                "Requested driver \"" \o driver \o "\" does not exist",
                NoEntity, <<>>))
    ELSE IF names = <<>>
    THEN Outcome(store, Fault("KeyError"))   \* request.params.pop('name')
    ELSE LET found == create_found(store.entities, names)
             made == create_result(store.entities, driver, names, <<>>)
             after == [store EXCEPT !.entities = made.entities]
         IN  IF made.fault # "none"
             THEN Outcome(after, Fault(made.fault))
             ELSE Outcome(after,
                    Response(IF found # <<>> THEN 202 ELSE 201,
                             made.result, "", NoEntity, found))

\* ----------------------------------------------------------------- delete

\* delete without the test of notfound: what resolved is deleted.
delete_objs_partial(notfound, objs) == objs

\* The objects delete goes on to delete: all of them, or none when a name
\* did not resolve.
delete_objs(notfound, objs) == IF notfound # <<>> THEN <<>> ELSE objs

\* The loop `for obj in objs: obj.entity.delete()`. A name given twice
\* is in objs twice, and the second delete of its entity finds it gone.
RECURSIVE delete_all(_, _)
delete_all(store, objs) ==
    IF objs = <<>> THEN store
    ELSE delete_all(entity_delete(store, Head(objs).name), Tail(objs))

delete(store, driver, names) ==
    IF ~in_driverlist(driver)
    THEN Outcome(store,
            Response(409, <<>>,
                "Requested driver \"" \o driver \o "\" does not exist",
                NoEntity, <<>>))
    ELSE LET es == store.entities
             notfound == SelectSeq(names, LAMBDA n : LookupError(es, n))
             hits == SelectSeq(names, LAMBDA n : ~LookupError(es, n))
             objs == [i \in 1..Len(hits) |-> get_by_name(es, hits[i])]
             code == IF notfound # <<>> THEN 404 ELSE 204
         IN  Outcome(delete_all(store, delete_objs(notfound, objs)),
                     Response(code, <<>>, "", NoEntity, <<>>))

\* ------------------------------------------------------------------- show

\* util.object(name, driver), as show and insert call it. clustoapi/util.py
\* defines get, dumps, unclusto and show and no attribute `object`, so the
\* attribute lookup raises AttributeError.
util_object(es, name, driver) ==
    [fault |-> "AttributeError", obj |-> NoObject, status |-> 500, msg |-> ""]

\* util.show(obj)
util_show(store, obj) ==
    LET inside == SelectSeq(NameOrder, LAMBDA n : <<obj.name, n>> \in store.contents)
        around == SelectSeq(NameOrder, LAMBDA n : <<n, obj.name>> \in store.contents)
    IN  [name |-> obj.name, driver |-> obj.driver,
         contents |-> [i \in 1..Len(inside) |->
                          unclusto(get_by_name(store.entities, inside[i]))],
         parents |-> [i \in 1..Len(around) |->
                          unclusto(get_by_name(store.entities, around[i]))]]

show(store, driver, name) ==
    LET r == util_object(store.entities, name, driver)
    IN  IF r.fault # "none" THEN Outcome(store, Fault(r.fault))
        ELSE IF r.obj = NoObject
        THEN Outcome(store, Response(r.status, <<>>, r.msg, NoEntity, <<>>))
        ELSE Outcome(store,
                Response(200, <<>>, "", util_show(store, r.obj), <<>>))

\* ----------------------------------------------------------------- insert

\* The last loop of insert: obj.insert(devobj) for every devobj that is
\* not in obj yet.
RECURSIVE insert_all(_, _, _)
insert_all(cs, obj, devobjs) ==
    IF devobjs = <<>> THEN cs
    ELSE LET edge == <<obj.name, Head(devobjs).name>>
         IN  insert_all(IF edge \notin cs THEN cs \cup {edge} ELSE cs,
                        obj, Tail(devobjs))

insert(store, driver, name, devices) ==
    LET r == util_object(store.entities, name, driver)
        es == store.entities
        notfound == SelectSeq(devices, LAMBDA n : LookupError(es, n))
        hits == SelectSeq(devices, LAMBDA n : ~LookupError(es, n))
        devobjs == [i \in 1..Len(hits) |-> get_by_name(es, hits[i])]
    IN  IF r.fault # "none" THEN Outcome(store, Fault(r.fault))
        ELSE IF r.obj = NoObject
        THEN Outcome(store, Response(r.status, <<>>, r.msg, NoEntity, <<>>))
        ELSE IF notfound # <<>>
        THEN Outcome(store,
                Response(404, <<>>,
                    "Objects " \o join(notfound)
                        \o " do not exist and cannot be inserted into \""
                        \o name \o "\"",
                    NoEntity, <<>>))
        ELSE show([store EXCEPT !.contents = insert_all(@, r.obj, devobjs)],
                  driver, name)

\* ---------------------------------------------------------- the requests

Store == [entities |-> entities, contents |-> contents]

Request(op, driver, name, names) ==
    [op |-> op, driver |-> driver, name |-> name, names |-> names]

\* The stores the server may find when it starts: an empty one, and one in
\* which other clients of the store have put a pool with a server in it.
InitStores ==
    {[entities |-> [n \in Names |-> Absent], contents |-> {}],
     [entities |-> [n \in Names |->
                      CASE n = "p1" -> "pool"
                        [] n = "s1" -> "basicserver"
                        [] OTHER -> Absent],
      contents |-> {<<"p1", "s1">>}]}

Init ==
    /\ \E s \in InitStores : entities = s.entities /\ contents = s.contents
    /\ pre = Store
    /\ request = Request("none", None, None, <<>>)
    /\ response = Response(0, <<>>, "", NoEntity, <<>>)
    /\ value = Py("NoneType", "None")
    /\ serialized = Unset

\* Each action is one request, from its arrival to its response.

\* GET / and GET /<driver>
GetEntities ==
    \E driver \in DriverInputs \cup {None} :
        LET out == get_entities(Store, driver)
        IN  /\ request' = Request("get_entities", driver, None, <<>>)
            /\ pre' = Store
            /\ entities' = out.store.entities
            /\ contents' = out.store.contents
            /\ response' = out.response
            /\ UNCHANGED <<value, serialized>>

\* POST /<driver>
Create ==
    \E driver \in DriverInputs, names \in NameLists(MaxNames) :
        LET out == create(Store, driver, names)
        IN  /\ request' = Request("create", driver, None, names)
            /\ pre' = Store
            /\ entities' = out.store.entities
            /\ contents' = out.store.contents
            /\ response' = out.response
            /\ UNCHANGED <<value, serialized>>

\* DELETE /<driver>
Delete ==
    \E driver \in DriverInputs, names \in NameLists(MaxNames) :
        LET out == delete(Store, driver, names)
        IN  /\ request' = Request("delete", driver, None, names)
            /\ pre' = Store
            /\ entities' = out.store.entities
            /\ contents' = out.store.contents
            /\ response' = out.response
            /\ UNCHANGED <<value, serialized>>

\* GET /<driver>/<name>
Show ==
    \E driver \in DriverInputs, name \in Names :
        LET out == show(Store, driver, name)
        IN  /\ request' = Request("show", driver, name, <<>>)
            /\ pre' = Store
            /\ entities' = out.store.entities
            /\ contents' = out.store.contents
            /\ response' = out.response
            /\ UNCHANGED <<value, serialized>>

\* PUT /<driver>/<name>
Insert ==
    \E driver \in DriverInputs, name \in Names,
       devices \in NameLists(MaxDevices) :
        LET out == insert(Store, driver, name, devices)
        IN  /\ request' = Request("insert", driver, name, devices)
            /\ pre' = Store
            /\ entities' = out.store.entities
            /\ contents' = out.store.contents
            /\ response' = out.response
            /\ UNCHANGED <<value, serialized>>

Next == GetEntities \/ Create \/ Delete \/ Show \/ Insert

Spec == Init /\ [][Next]_vars

\* The serializer alone: unclusto applied to one object after another, the
\* store left as it is.
InitUnclusto ==
    /\ entities = [n \in Names |-> Absent]
    /\ contents = {}
    /\ pre = Store
    /\ request = Request("none", None, None, <<>>)
    /\ response = Response(0, <<>>, "", NoEntity, <<>>)
    /\ value \in Values
    /\ serialized = Unset

Unclusto ==
    \E obj \in Values :
        /\ value' = obj
        /\ serialized' = unclusto_value(obj)
        /\ UNCHANGED <<entities, contents, pre, request, response>>

NextUnclusto == Unclusto

SpecUnclusto == InitUnclusto /\ [][NextUnclusto]_vars

\* ------------------------------------------------------------ the claims

\* The name resolved when the request arrived.
Resolves(n) == pre.entities[n] # Absent

\* The reference of the entity the name had when the request arrived.
Ref(n) == "/" \o pre.entities[n] \o "/" \o n

Count(seq, x) == Cardinality({i \in DOMAIN seq : seq[i] = x})

Unchanged == entities = pre.entities /\ contents = pre.contents

Registered == request.driver \in driverlist

C2_CreateStatus ==
    (request.op = "create" /\ Registered /\ request.names # <<>>) =>
        LET existed == \E i \in DOMAIN request.names : Resolves(request.names[i])
        IN  /\ (response.status = 201) <=> ~existed
            /\ (response.status = 202 /\ response.Warnings # NoHeader) <=> existed
            /\ response.body = [i \in DOMAIN request.names |->
                                  "/" \o request.driver \o "/" \o request.names[i]]

C4_ShowResolves ==
    (request.op = "show" /\ Registered) =>
        /\ (response.status = 404) <=> ~Resolves(request.name)
        /\ (response.status = 409) <=>
              (Resolves(request.name) /\ pre.entities[request.name] # request.driver)
        /\ (response.status = 200 /\ response.entity.name = request.name) <=>
              pre.entities[request.name] = request.driver
        /\ Unchanged

\* C5: an Insert whose container resolves and one of whose devices does
\* not answers 404 and adds no containment edge.
C5_InsertAllOrNothing ==
    (/\ request.op = "insert"
     /\ pre.entities[request.name] = request.driver
     /\ \E i \in DOMAIN request.names : ~Resolves(request.names[i])) =>
        response.status = 404 /\ Unchanged

\* C6: an Insert of devices that resolve into a container that resolves
\* reports no error and leaves the container with what it had and the
\* devices, whether or not it had them before.
C6_InsertIdempotent ==
    (/\ request.op = "insert"
     /\ pre.entities[request.name] = request.driver
     /\ request.names # <<>>
     /\ \A i \in DOMAIN request.names :
            Resolves(request.names[i]) /\ request.names[i] # request.name) =>
        /\ response.status = 200
        /\ entities = pre.entities
        /\ contents = pre.contents \cup
              {<<request.name, request.names[i]>> : i \in DOMAIN request.names}

\* C7: a Delete never deletes an entity whose driver is not the driver of
\* the request.
C7_DeleteMatchesDriver ==
    request.op = "delete" =>
        \A n \in Names :
            (Resolves(n) /\ pre.entities[n] # request.driver) =>
                entities[n] = pre.entities[n]

C9_TypedOutcome ==
    (request.op # "none" /\ (request.op = "create" => request.names # <<>>)) =>
        /\ response.fault = "none"
        /\ response.status \in {200, 201, 202, 204, 404, 409}

\* C10: after a Create with a registered driver every requested name has
\* an entity, and what was in the store before is as it was.
C10_CreateAll ==
    (request.op = "create" /\ Registered) =>
        /\ \A i \in DOMAIN request.names : entities[request.names[i]] # Absent
        /\ \A n \in Names : Resolves(n) => entities[n] = pre.entities[n]
        /\ contents = pre.contents

\* What C11 says unclusto returns for a value that is no attribute, with
\* `unchanged` the types it says are returned as they are.
Dispatched(v, unchanged) ==
    IF v.type \in unchanged THEN v
    ELSE IF v.type = "Driver"
    THEN Py("str", "/" \o v.driver \o "/" \o v.name)
    ELSE Py("str", v.repr)

\* What C11 says unclusto returns for any value.
Serialized(v, unchanged) ==
    IF v.type = "Attribute"
    THEN [type |-> "dict", key |-> v.key,
          value |-> Dispatched(v.value, unchanged),
          subkey |-> v.subkey, number |-> v.number, datatype |-> v.datatype]
    ELSE Dispatched(v, unchanged)

\* C11 as stated: a string, an integer, a boolean or None is returned
\* unchanged, an entity becomes its reference, an attribute the object of
\* its fields with its value serialized by the same rule, and any other
\* value its string form.
C11_SerializerDispatch ==
    serialized # Unset =>
        serialized = Serialized(value, {"str", "unicode", "int", "bool", "NoneType"})

\* C11 as amended: a boolean is not returned unchanged but as its string
\* form, like every value that is no string, integer, None, attribute or
\* entity.
C11_SerializerDispatchNoBool ==
    serialized # Unset =>
        /\ serialized = Serialized(value, {"str", "unicode", "int", "NoneType"})
        /\ value.type = "bool" => serialized = Py("str", value.repr)

\* unclusto was given True and returned the string 'True'.
C11_Witness ==
    /\ value = Py("bool", "True")
    /\ serialized = Py("str", "True")

====
